---------------------------- MODULE Spec2Model ----------------------------
(***************************************************************************)
(* A model of the dmpbbo core: the DynamicalSystem base class with its     *)
(* ExponentialSystem variant (construction, integrateStart, integrateStep, *)
(* analyticalSolution, JSON (de)serialization) and the RBFN function       *)
(* approximator (construction, predict).                                   *)
(*                                                                         *)
(* Numbers.  The code computes in IEEE doubles.  The model computes in     *)
(* exact rationals <<n, d>> (d > 0, lowest terms), so "equal" in the model *)
(* is "equal up to rounding" in the code.  Values that involve exp() are   *)
(* kept as exact formal sums  SUM_i c_i * exp(-q_i)  (see ExpSum below).   *)
(*                                                                         *)
(* Builds.  The top-level CMakeLists compiles Release builds with -DNDEBUG,*)
(* which removes every assert() (and every Eigen bounds/shape check).  The *)
(* variable ndebug is the build the run uses.  A call whose arguments      *)
(* break a removed check is undefined behaviour: the model lets it either  *)
(* crash or return buffers filled with arbitrary values.                   *)
(***************************************************************************)
EXTENDS Integers, Sequences, FiniteSets, TLC

VARIABLES
  ndebug,   \* TRUE: the build defines NDEBUG (asserts compiled out)
  pc,       \* "running" | "aborted" (a failed assert ended the process)
  sys,      \* the DynamicalSystem object under use, or NoSys
  call,     \* the last call on sys: its arguments, outcome and outputs
  fa,       \* the FunctionApproximatorRBFN object under use, or NoFa
  pcall     \* the last predict call on fa

vars == <<ndebug, pc, sys, call, fa, pcall>>

-----------------------------------------------------------------------------
(* Bounds of the model *)

\* largest dim_orig (length of initial_state / attractor_state) enumerated
MaxLen == 2

-----------------------------------------------------------------------------
(* Exact rational arithmetic: <<n, d>> with d > 0 and gcd(|n|, d) = 1 *)

Abs(n) == IF n < 0 THEN -n ELSE n

RECURSIVE GCD(_, _)
GCD(a, b) == IF b = 0 THEN a ELSE GCD(b, a % b)

Rat(n, d) ==
  LET g == GCD(Abs(n), Abs(d))
      s == IF d < 0 THEN -1 ELSE 1
  IN  <<(s * n) \div g, (s * d) \div g>>

R(n) == <<n, 1>>
RAdd(a, b) == Rat(a[1] * b[2] + b[1] * a[2], a[2] * b[2])
RSub(a, b) == Rat(a[1] * b[2] - b[1] * a[2], a[2] * b[2])
RMul(a, b) == Rat(a[1] * b[1], a[2] * b[2])
RDiv(a, b) == Rat(a[1] * b[2], a[2] * b[1])
RNeg(a) == <<-a[1], a[2]>>
RPos(a) == a[1] > 0

(* Vectors of rationals (Eigen::VectorXd), coefficient-wise *)
VAdd(u, v) == [i \in 1..Len(u) |-> RAdd(u[i], v[i])]
VSub(u, v) == [i \in 1..Len(u) |-> RSub(u[i], v[i])]
VScale(c, v) == [i \in 1..Len(v) |-> RMul(c, v[i])]
VDivS(v, c) == [i \in 1..Len(v) |-> RDiv(v[i], c)]
VConst(n, c) == [i \in 1..n |-> c]
VZero(n) == VConst(n, R(0))
VSegment(v, start, n) == SubSeq(v, start + 1, start + n)

\* all vectors of length 0..maxlen with integer entries from vals
VecsOver(vals, maxlen) ==
  UNION {[1..n -> {R(v) : v \in vals}] : n \in 0..maxlen}

(* Values that involve exp(): the exact formal sum  SUM_i c_i * exp(e_i)  with   *)
(* rational c_i # 0 and distinct rational e_i, kept as the set of pairs           *)
(* <<e_i, c_i>>.  Two such sums are equal as real numbers exactly when they are   *)
(* equal as sets (exp of distinct rationals are linearly independent over Q).     *)
ECoef(a, e) == IF \E p \in a : p[1] = e THEN (CHOOSE p \in a : p[1] = e)[2] ELSE R(0)
ENorm(a) == {p \in a : p[2] # R(0)}
EConst(c) == ENorm({<<R(0), c>>})
EExp(e) == {<<e, R(1)>>}
EScale(k, a) == ENorm({<<p[1], RMul(k, p[2])>> : p \in a})
EAdd(a, b) ==
  ENorm({<<e, RAdd(ECoef(a, e), ECoef(b, e))>> : e \in {p[1] : p \in a \cup b}})

(* Matrices (Eigen::MatrixXd): a shape and a coefficient for every place *)
Matrix(rows, cols, coef) ==
  [rows |-> rows, cols |-> cols, at |-> coef]

Transposed(m) ==
  Matrix(m.cols, m.rows, [i \in 1..m.cols, j \in 1..m.rows |-> m.at[<<j, i>>]])

-----------------------------------------------------------------------------
(* Input sets enumerated by the actions *)

Orders == 0..3                      \* the order a subclass hands the base class
Taus == {R(-1), R(2)}               \* time constants; R(-1) is a non-positive tau
Alphas == {R(1), R(3)}              \* decay constants of the ExponentialSystem
Dampings == {R(2)}                  \* damping coefficients of the SpringDamperSystem
InitialStates == VecsOver({0, 1}, MaxLen)
AttractorStates == {VConst(n, R(2)) : n \in 0..MaxLen}
Dts == {R(-1), Rat(1, 2)}           \* time steps; R(-1) is a non-positive dt
Junk == R(7)                        \* what a caller's output buffer holds before a call

-----------------------------------------------------------------------------
(* DynamicalSystem: construction *)

NoSys == [variant |-> "none"]
Null == [variant |-> "null"]        \* a NULL DynamicalSystem*
IsSystem(s) == s.variant \notin {"none", "null"}

\* a constructor that forgets the order in dim_
DynamicalSystemInit_DimIgnoresOrder(order, tau, initial_state, attractor_state) ==
  [dim_ |-> Len(initial_state),
   dim_orig_ |-> Len(initial_state),
   tau_ |-> tau,
   initial_state_ |-> initial_state,
   attractor_state_ |-> attractor_state,
   integration_method_ |-> "RUNGE_KUTTA"]

\* DynamicalSystem.cpp:49-55, the member initialisers
DynamicalSystemInit(order, tau, initial_state, attractor_state) ==
  [dim_ |-> Len(initial_state) * order,
   dim_orig_ |-> Len(initial_state),
   tau_ |-> tau,
   initial_state_ |-> initial_state,
   attractor_state_ |-> attractor_state,
   integration_method_ |-> "RUNGE_KUTTA"]

\* DynamicalSystem.cpp:57-58, the two asserts of the constructor body
DynamicalSystemAsserts(order, initial_state, attractor_state) ==
  /\ order = 1 \/ order = 2
  /\ Len(initial_state) = Len(attractor_state)

\* assert(c) in this build: TRUE when execution goes on past it
AssertPasses(c) == ndebug \/ c

\* ExponentialSystem.cpp:40-45
ExponentialSystemCtor(tau, y_init, y_attr, alpha) ==
  DynamicalSystemInit(1, tau, y_init, y_attr) @@
  [variant |-> "ExponentialSystem", alpha_ |-> alpha,
   attractor_state_prealloc_ |-> VZero(Len(y_init))]

\* the reserved spring constant: DynamicalSystem.cpp:220
CRITICALLY_DAMPED == -1

\* SpringDamperSystem(tau, y_init, y_attr, damping_coefficient,
\*   spring_constant = CRITICALLY_DAMPED, mass = 1.0): the declaration is at
\* DynamicalSystem.cpp:241-242, the body is not in the sources
SpringDamperSystemCtor(tau, y_init, y_attr, damping_coefficient, spring_constant, mass) ==
  DynamicalSystemInit(2, tau, y_init, y_attr) @@
  [variant |-> "SpringDamperSystem",
   damping_coefficient_ |-> damping_coefficient,
   spring_constant_ |->
     IF spring_constant = R(CRITICALLY_DAMPED)
     THEN RDiv(RMul(damping_coefficient, damping_coefficient), RMul(R(4), mass))
     ELSE spring_constant,
   mass_ |-> mass]

\* a subclass other than the repository's, handing the base class any order
SubclassCtor(order, tau, y_init, y_attr) ==
  DynamicalSystemInit(order, tau, y_init, y_attr) @@
  [variant |-> "Subclass"]

\* the object a constructor call with these arguments builds
NewSystem(order, tau, y_init, y_attr, alpha, damping) ==
  CASE order = 1 -> ExponentialSystemCtor(tau, y_init, y_attr, alpha)
    [] order = 2 -> SpringDamperSystemCtor(tau, y_init, y_attr, damping,
                                           R(CRITICALLY_DAMPED), R(1))
    [] OTHER -> SubclassCtor(order, tau, y_init, y_attr)

-----------------------------------------------------------------------------
(* DynamicalSystem: the differential equations *)

\* ExponentialSystem.cpp:57-58: xd = alpha_ * (attractor_state_prealloc_ - x) / tau(),
\* attractor_state_prealloc_ having just been filled with attractor_state_
ExponentialDifferentialEquation(s, x) ==
  VDivS(VScale(s.alpha_, VSub(s.attractor_state_, x)), s.tau_)

\* SpringDamperSystem: y' = z, m z' = -k (y - y_attr) - c z, with x = [y z]
SpringDamperDifferentialEquation(s, x) ==
  LET n == s.dim_orig_
      y == VSegment(x, 0, n)
      z == VSegment(x, n, n)
      force == VSub(VScale(RNeg(s.spring_constant_), VSub(y, s.attractor_state_)),
                    VScale(s.damping_coefficient_, z))
  IN  z \o VDivS(force, s.mass_)

\* the virtual differentialEquation(x, xd) of s
differentialEquation(s, x) ==
  IF s.variant = "ExponentialSystem"
  THEN ExponentialDifferentialEquation(s, x)
  ELSE SpringDamperDifferentialEquation(s, x)

\* an evaluation that copies the other way, the scratch into attractor_state_
AfterEvaluation_ScratchIntoAttractor(s) ==
  IF s.variant = "ExponentialSystem"
  THEN [s EXCEPT !.attractor_state_ = s.attractor_state_prealloc_]
  ELSE s

\* ExponentialSystem.cpp:57: every evaluation leaves attractor_state_ in the scratch
AfterEvaluation(s) ==
  IF s.variant = "ExponentialSystem"
  THEN [s EXCEPT !.attractor_state_prealloc_ = s.attractor_state_]
  ELSE s

\* the variants whose differentialEquation the model has
Integrable(s) == s.variant \in {"ExponentialSystem", "SpringDamperSystem"}

\* differentialEquation(x, xd) reads and writes inside its vectors: x and xd have
\* dim() coefficients and attractor_state_ has dim_orig() of them
EvaluationDefined(s, nx, nxd) ==
  /\ nx = s.dim_ /\ nxd = s.dim_
  /\ Len(s.attractor_state_) = s.dim_orig_

\* the buffer sizes a caller hands in: the right one, the position part alone, one
\* coefficient too many
BufferSizes(s) == {s.dim_, s.dim_orig_, s.dim_ + 1}

\* what undefined behaviour may leave in the coefficients of the output buffers
ArbitraryValues == {Junk, R(0)}

-----------------------------------------------------------------------------
(* DynamicalSystem: integrateStart *)

\* set_initial_state(x_init), called at DynamicalSystem.cpp:67; the accessor is
\* declared in DynamicalSystem.hpp: a shape mismatch is a fatal structural error
SetInitialStateAccepts(s, x_init) == Len(x_init) = s.dim_orig_
set_initial_state(s, x_init) == [s EXCEPT !.initial_state_ = x_init]

\* DynamicalSystem.cpp:76-77
IntegrateStartAsserts(s, nx, nxd) == nx = s.dim_ /\ nxd = s.dim_

\* the segment write without the x.fill(0) before it
PaddedInitialState_NoFill(s, x_before) ==
  [i \in 1..Len(x_before) |->
     IF i <= Len(s.initial_state_) THEN s.initial_state_[i] ELSE x_before[i]]

\* DynamicalSystem.cpp:83-84: x.fill(0); x.segment(0, initial_state_.size()) = initial_state_
PaddedInitialState(s, x_before) ==
  LET zeroed == VZero(Len(x_before))
  IN  [i \in 1..Len(x_before) |->
         IF i <= Len(s.initial_state_) THEN s.initial_state_[i] ELSE zeroed[i]]

\* DynamicalSystem.cpp:71-88, on a caller's x (any contents) and xd of nxd coefficients
integrateStart(s, x_before, nxd) ==
  LET x == PaddedInitialState(s, x_before)
  IN  [x |-> x, xd |-> differentialEquation(s, x)]

\* the segment write of line 84 stays inside x, and the evaluation is defined
IntegrateStartDefined(s, nx, nxd) ==
  /\ Len(s.initial_state_) <= nx
  /\ EvaluationDefined(s, nx, nxd)

\* record of an integrateStart call; x_init is <<"none">> for the two-argument overload
StartCall(x_init, nx, nxd, outcome, x, xd) ==
  [op |-> "integrateStart", x_init |-> x_init, nx |-> nx, nxd |-> nxd,
   outcome |-> outcome, x |-> x, xd |-> xd]

NoXInit == <<"none">>

\* the effect of integrateStart(x, xd) on object s, recorded with x_init
DoIntegrateStart(s, x_init, nx, nxd) ==
  LET x_before == VConst(nx, Junk)
      xd_before == VConst(nxd, Junk)
  IN  IF ~AssertPasses(IntegrateStartAsserts(s, nx, nxd))
      THEN /\ pc' = "aborted"
           /\ sys' = s
           /\ call' = StartCall(x_init, nx, nxd, "fatal", x_before, xd_before)
      ELSE IF IntegrateStartDefined(s, nx, nxd)
      THEN /\ pc' = "running"
           /\ sys' = AfterEvaluation(s)
           /\ call' = LET r == integrateStart(s, x_before, nxd)
                      IN  StartCall(x_init, nx, nxd, "returned", r.x, r.xd)
      ELSE \* undefined behaviour: a crash, or arbitrary values in the buffers
           /\ sys' = s
           /\ \/ /\ pc' = "aborted"
                 /\ call' = StartCall(x_init, nx, nxd, "crash", x_before, xd_before)
              \/ /\ pc' = "running"
                 /\ \E v \in ArbitraryValues :
                      call' = StartCall(x_init, nx, nxd, "undefined",
                                        VConst(nx, v), VConst(nxd, v))

\* integrateStart(x, xd): DynamicalSystem.cpp:71-88
IntegrateStart2 ==
  /\ pc = "running" /\ Integrable(sys)
  /\ \E nx \in BufferSizes(sys), nxd \in BufferSizes(sys) :
       /\ nxd \in {nx, sys.dim_}
       /\ DoIntegrateStart(sys, NoXInit, nx, nxd)
  /\ UNCHANGED <<ndebug, fa, pcall>>

\* integrateStart(x_init, x, xd): DynamicalSystem.cpp:63-69
IntegrateStart3 ==
  /\ pc = "running" /\ Integrable(sys)
  /\ \E x_init \in InitialStates, nx \in BufferSizes(sys) :
       /\ IF SetInitialStateAccepts(sys, x_init)
          THEN DoIntegrateStart(set_initial_state(sys, x_init), x_init, nx, nx)
          ELSE /\ pc' = "aborted"
               /\ sys' = sys
               /\ call' = StartCall(x_init, nx, nx, "fatal",
                                    VConst(nx, Junk), VConst(nx, Junk))
  /\ UNCHANGED <<ndebug, fa, pcall>>

-----------------------------------------------------------------------------
(* DynamicalSystem: integrateStep *)

\* DynamicalSystem.cpp:95 and 98
IntegrateStepAsserts(s, dt, x) == RPos(dt) /\ Len(x) = s.dim_

\* an Euler step that hands back the rate of change at the new state
integrateStepEuler_DerivativeAtUpdated(s, dt, x) ==
  LET x_updated == VAdd(x, VScale(dt, differentialEquation(s, x)))
  IN  [x_updated |-> x_updated,
       xd_updated |-> differentialEquation(s, x_updated),
       evals |-> 2]

\* DynamicalSystem.cpp:105-112
integrateStepEuler(s, dt, x) ==
  LET xd_updated == differentialEquation(s, x)
  IN  [x_updated |-> VAdd(x, VScale(dt, xd_updated)),
       xd_updated |-> xd_updated,
       evals |-> 1]

\* a Runge-Kutta step that weighs the two midpoint slopes once instead of twice
integrateStepRungeKutta_MidpointsOnce(s, dt, x) ==
  LET k1 == differentialEquation(s, x)
      k2 == differentialEquation(s, VAdd(x, VScale(RMul(dt, Rat(1, 2)), k1)))
      k3 == differentialEquation(s, VAdd(x, VScale(RMul(dt, Rat(1, 2)), k2)))
      k4 == differentialEquation(s, VAdd(x, VScale(dt, k3)))
      x_updated == VAdd(x, VDivS(VScale(dt, VAdd(VAdd(k1, VAdd(k2, k3)), k4)), R(6)))
  IN  [x_updated |-> x_updated,
       xd_updated |-> differentialEquation(s, x_updated),
       evals |-> 5]

\* DynamicalSystem.cpp:114-134
integrateStepRungeKutta(s, dt, x) ==
  LET k1 == differentialEquation(s, x)
      input_k2 == VAdd(x, VScale(RMul(dt, Rat(1, 2)), k1))
      k2 == differentialEquation(s, input_k2)
      input_k3 == VAdd(x, VScale(RMul(dt, Rat(1, 2)), k2))
      k3 == differentialEquation(s, input_k3)
      input_k4 == VAdd(x, VScale(dt, k3))
      k4 == differentialEquation(s, input_k4)
      x_updated ==
        VAdd(x, VDivS(VScale(dt, VAdd(VAdd(k1, VScale(R(2), VAdd(k2, k3))), k4)), R(6)))
  IN  [x_updated |-> x_updated,
       xd_updated |-> differentialEquation(s, x_updated),
       evals |-> 5]

\* DynamicalSystem.cpp:99-102, the dispatch on integration_method_
integrateStep(s, dt, x) ==
  IF s.integration_method_ = "RUNGE_KUTTA"
  THEN integrateStepRungeKutta(s, dt, x)
  ELSE integrateStepEuler(s, dt, x)

\* record of an integrateStep call; nout is the size of the caller's x_updated and
\* xd_updated
StepCall(dt, x, nout, outcome, evals, x_updated, xd_updated) ==
  [op |-> "integrateStep", dt |-> dt, x |-> x, nout |-> nout,
   outcome |-> outcome, evals |-> evals,
   x_updated |-> x_updated, xd_updated |-> xd_updated]

Ramp(n) == [i \in 1..n |-> R(i)]

\* the states a caller hands to integrateStep: a fixed vector of each size, and the
\* state integrateStart just returned
StepInputs ==
  {Ramp(n) : n \in BufferSizes(sys)}
  \cup (IF call.op = "integrateStart" /\ call.outcome = "returned"
        THEN {call.x} ELSE {})

\* integrateStep(dt, x, x_updated, xd_updated): DynamicalSystem.cpp:90-103
IntegrateStep ==
  /\ pc = "running" /\ Integrable(sys)
  /\ \E dt \in Dts, x \in StepInputs, nout \in BufferSizes(sys) :
       LET before == VConst(nout, Junk)
       IN  /\ nout \in {sys.dim_, Len(x)}
           /\ IF ~AssertPasses(IntegrateStepAsserts(sys, dt, x))
              THEN /\ pc' = "aborted"
                   /\ sys' = sys
                   /\ call' = StepCall(dt, x, nout, "fatal", 0, before, before)
              ELSE IF EvaluationDefined(sys, Len(x), nout)
              THEN /\ pc' = "running"
                   /\ sys' = AfterEvaluation(sys)
                   /\ call' = LET r == integrateStep(sys, dt, x)
                              IN  StepCall(dt, x, nout, "returned", r.evals,
                                           r.x_updated, r.xd_updated)
              ELSE IF ~ndebug
              THEN \* Eigen's own assert on the shape of a Ref stops the process
                   /\ pc' = "aborted"
                   /\ sys' = sys
                   /\ call' = StepCall(dt, x, nout, "fatal", 0, before, before)
              ELSE \* undefined behaviour: a crash, or arbitrary values
                   /\ sys' = sys
                   /\ \/ /\ pc' = "aborted"
                         /\ call' = StepCall(dt, x, nout, "crash", 0, before, before)
                      \/ /\ pc' = "running"
                         /\ \E v \in ArbitraryValues :
                              call' = StepCall(dt, x, nout, "undefined", 0,
                                               VConst(nout, v), VConst(nout, v))
  /\ UNCHANGED <<ndebug, fa, pcall>>

\* set_integration_method(m): the two-state configuration toggle; the setter is
\* declared in DynamicalSystem.hpp
SetIntegrationMethod ==
  /\ pc = "running" /\ IsSystem(sys)
  /\ \E m \in {"EULER", "RUNGE_KUTTA"} :
       /\ m # sys.integration_method_
       /\ sys' = [sys EXCEPT !.integration_method_ = m]
  /\ call' = [op |-> "set_integration_method"]
  /\ UNCHANGED <<ndebug, pc, fa, pcall>>

-----------------------------------------------------------------------------
(* ExponentialSystem: analyticalSolution *)

\* largest number of time samples handed to analyticalSolution
MaxT == 2

\* the sample times of a call with T samples: ts = <<1, .., T>>
TimeSamples(T) == Ramp(T)

\* ExponentialSystem.cpp:73
caller_expects_transposed(s, T, xs_rows, xs_cols) ==
  xs_rows = s.dim_ /\ xs_cols = T

\* ExponentialSystem.cpp:77-96 on a system whose state vectors have dim() coefficients
analyticalSolution(s, ts, xs_rows, xs_cols) ==
  LET T == Len(ts)
      val_range == VSub(s.initial_state_, s.attractor_state_)
      exp_term == VDivS(VScale(RNeg(s.alpha_), ts), s.tau_)
      pos_scale == [t \in 1..T |-> EExp(exp_term[t])]
      vel_scale == [t \in 1..T |->
                      EScale(RNeg(RDiv(s.alpha_, s.tau_)), EExp(exp_term[t]))]
      xs == Matrix(T, s.dim_, [t \in 1..T, d \in 1..s.dim_ |->
              EAdd(EScale(val_range[d], pos_scale[t]), EConst(s.attractor_state_[d]))])
      xds == Matrix(T, s.dim_, [t \in 1..T, d \in 1..s.dim_ |->
               EScale(val_range[d], vel_scale[t])])
  IN  IF caller_expects_transposed(s, T, xs_rows, xs_cols)
      THEN [xs |-> Transposed(xs), xds |-> Transposed(xds)]
      ELSE [xs |-> xs, xds |-> xds]

\* record of an analyticalSolution call: the caller's intent, the shape of its xs
\* buffer on entry, and what came back
SolutionCall(want, ts, rows, cols, outcome, xs, xds) ==
  [op |-> "analyticalSolution", want |-> want, ts |-> ts,
   xs_rows |-> rows, xs_cols |-> cols, outcome |-> outcome, xs |-> xs, xds |-> xds]

EmptyMatrix == Matrix(0, 0, [i \in 1..0, j \in 1..0 |-> EConst(R(0))])

\* analyticalSolution(ts, xs, xds): ExponentialSystem.cpp:63-97.  A caller asks for
\* dim-major output by handing in a dim x T buffer; a caller who wants time-major
\* output hands in an empty buffer or one already sized T x dim
AnalyticalSolution ==
  /\ pc = "running" /\ sys.variant = "ExponentialSystem"
  /\ \E T \in 0..MaxT, want \in {"time_major", "dim_major"},
        rows \in 0..(MaxT + MaxLen), cols \in 0..(MaxT + MaxLen) :
       LET ts == TimeSamples(T)
       IN  /\ want = "dim_major" => (rows = sys.dim_ /\ cols = T)
           /\ want = "time_major" =>
                (rows = 0 /\ cols = 0) \/ (rows = T /\ cols = sys.dim_)
           /\ IF ~AssertPasses(T > 0)
              THEN /\ pc' = "aborted"
                   /\ call' = SolutionCall(want, ts, rows, cols, "fatal",
                                           EmptyMatrix, EmptyMatrix)
              ELSE IF Len(sys.attractor_state_) = sys.dim_ /\ Len(sys.initial_state_) = sys.dim_
              THEN /\ pc' = "running"
                   /\ call' = LET r == analyticalSolution(sys, ts, rows, cols)
                              IN  SolutionCall(want, ts, rows, cols, "returned",
                                               r.xs, r.xds)
              ELSE \* operands of different sizes: undefined behaviour
                   \/ /\ pc' = "aborted"
                      /\ call' = SolutionCall(want, ts, rows, cols, "crash",
                                              EmptyMatrix, EmptyMatrix)
                   \/ /\ pc' = "running"
                      /\ call' = SolutionCall(want, ts, rows, cols, "undefined",
                                              EmptyMatrix, EmptyMatrix)
  /\ UNCHANGED <<ndebug, sys, fa, pcall>>

-----------------------------------------------------------------------------
(* JSON documents: functions from keys to values *)

JsonSet(j, key, value) == (key :> value) @@ j
JsonHas(j, key) == key \in DOMAIN j
JsonWithout(j, key) == [k \in (DOMAIN j) \ {key} |-> j[k]]

\* std::string::find(pattern) != npos
Contains(str, pattern) ==
  \E i \in 1..(Len(str) - Len(pattern) + 1) :
    SubSeq(str, i, i + Len(pattern) - 1) = pattern

\* the document form of an Eigen vector (eigenutils/eigen_json.hpp): {"values": [..]}
EigenToJson(v) == [values |-> v]

\* DynamicalSystem.cpp:159-172
to_json_base(s) ==
  [dim_ |-> s.dim_,
   dim_orig_ |-> s.dim_orig_,
   tau_ |-> s.tau_,
   initial_state_ |-> EigenToJson(s.initial_state_),
   attractor_state_ |-> EigenToJson(s.attractor_state_),
   integration_method_ |->
     IF s.integration_method_ = "EULER" THEN "EULER" ELSE "RUNGE_KUTTA"]
  @@ ("py/object" :> "dynamicalsystems.DynamicalSystem.DynamicalSystem")

\* ExponentialSystem.cpp:109-116
to_json_helper(s) ==
  JsonSet(JsonSet(to_json_base(s), "alpha_", s.alpha_),
          "py/object", "dynamicalsystems.ExponentialSystem.ExponentialSystem")

\* the keys from_json(j, ExponentialSystem*&) reads with at(): ExponentialSystem.cpp:101-104
ExponentialKeysRead == {"tau_", "alpha_", "initial_state_", "attractor_state_"}

\* json::at(key) of a missing key throws json::out_of_range
ExponentialFromJsonThrows(j) ==
  \/ \E k \in ExponentialKeysRead : ~JsonHas(j, k)
  \/ ~JsonHas(j.initial_state_, "values")
  \/ ~JsonHas(j.attractor_state_, "values")

\* ExponentialSystem.cpp:99-107: the object new ExponentialSystem(..) builds from j
ExponentialFromJson(j) ==
  ExponentialSystemCtor(j.tau_, j.initial_state_.values, j.attractor_state_.values,
                        j.alpha_)

\* from_json of SigmoidSystem, SpringDamperSystem and TimeSystem are not in the
\* sources: such an object is known by its variant alone
OtherVariantFromJson(variant, j) == [variant |-> variant]

\* the result of a from_json call: what obj holds afterwards, and whether a
\* diagnostic went to cerr
Loaded(outcome, o, diagnostic) ==
  [outcome |-> outcome, obj |-> o, diagnostic |-> diagnostic]

\* what the caller's obj pointer holds before from_json assigns it
Unassigned == [variant |-> "unassigned"]

\* an else-branch that prints the diagnostic and forgets obj = NULL
UnknownDynamicalSystem_PointerLeftAlone == Loaded("returned", Unassigned, TRUE)

\* DynamicalSystem.cpp:152-156, the else-branch: a diagnostic on cerr, obj = NULL
UnknownDynamicalSystem == Loaded("returned", Null, TRUE)

\* DynamicalSystem.cpp:136-157
from_json(j) ==
  IF ~JsonHas(j, "py/object")
  THEN Loaded("exception", Unassigned, FALSE)
  ELSE LET class_name == j["py/object"]
       IN  IF Contains(class_name, "ExponentialSystem")
           THEN IF ExponentialFromJsonThrows(j)
                THEN Loaded("exception", Unassigned, FALSE)
                ELSE IF ~AssertPasses(DynamicalSystemAsserts(
                            1, j.initial_state_.values, j.attractor_state_.values))
                THEN Loaded("fatal", Unassigned, FALSE)
                ELSE Loaded("returned", ExponentialFromJson(j), FALSE)
           ELSE IF Contains(class_name, "SigmoidSystem")
           THEN Loaded("returned", OtherVariantFromJson("SigmoidSystem", j), FALSE)
           ELSE IF Contains(class_name, "SpringDamperSystem")
           THEN Loaded("returned", OtherVariantFromJson("SpringDamperSystem", j), FALSE)
           ELSE IF Contains(class_name, "TimeSystem")
           THEN Loaded("returned", OtherVariantFromJson("TimeSystem", j), FALSE)
           ELSE UnknownDynamicalSystem

\* discriminator strings a document may carry
Tags ==
  {"dynamicalsystems.ExponentialSystem.ExponentialSystem", "ExponentialSystem",
   "SigmoidSystem", "x.SpringDamperSystem", "TimeSystem.y",
   "SigmoidSystemTimeSystem",
   "dynamicalsystems.DynamicalSystem.DynamicalSystem",
   "", "exponentialsystem", "Exponential System", "TimeSyste", "LinearSystem"}

\* the documents handed to from_json after to_json_helper wrote j: j itself, j with
\* another discriminator, j with one key missing
DocumentsFrom(j) ==
  {j}
  \cup {JsonSet(j, "py/object", tag) : tag \in Tags}
  \cup {JsonWithout(j, k) : k \in DOMAIN j}
  \cup {JsonSet(j, k, [other |-> <<>>]) : k \in {"initial_state_", "attractor_state_"}}

\* operator<< / to_json: DynamicalSystem.cpp:174-181, ExponentialSystem.cpp:109-116
ToJson ==
  /\ pc = "running" /\ sys.variant = "ExponentialSystem"
  /\ call' = [op |-> "to_json_helper", j |-> to_json_helper(sys)]
  /\ UNCHANGED <<ndebug, pc, sys, fa, pcall>>

\* j.get<DynamicalSystem*>(): DynamicalSystem.cpp:136-157
FromJson ==
  /\ pc = "running" /\ call.op = "to_json_helper"
  /\ \E j \in DocumentsFrom(call.j) :
       LET r == from_json(j)
       IN  /\ call' = [op |-> "from_json", j |-> j, outcome |-> r.outcome,
                       obj |-> r.obj, diagnostic |-> r.diagnostic]
           /\ pc' = IF r.outcome = "fatal" THEN "aborted" ELSE "running"
  /\ UNCHANGED <<ndebug, sys, fa, pcall>>

NoCall == [op |-> "none"]
NoFa == [kind |-> "none"]

Init ==
  /\ ndebug \in BOOLEAN
  /\ pc = "running"
  /\ sys = NoSys
  /\ call = NoCall
  /\ fa = NoFa
  /\ pcall = NoCall

\* new DynamicalSystem subclass object: DynamicalSystem.cpp:42-59
Construct ==
  /\ pc = "running" /\ sys = NoSys
  /\ \E order \in Orders, tau \in Taus, y_init \in InitialStates,
        y_attr \in AttractorStates, alpha \in Alphas, damping \in Dampings :
       /\ order # 1 => alpha = R(1)
       /\ LET ok == AssertPasses(DynamicalSystemAsserts(order, y_init, y_attr))
              \* ctor: the arguments the object was built from (history only)
              ctor == [order |-> order, n_init |-> Len(y_init), n_attr |-> Len(y_attr)]
          IN  /\ sys' = IF ok
                        THEN NewSystem(order, tau, y_init, y_attr, alpha, damping)
                             @@ [ctor |-> ctor]
                        ELSE NoSys
              /\ pc' = IF ok THEN "running" ELSE "aborted"
              /\ call' = [op |-> "construct", order |-> order, tau |-> tau,
                          n_init |-> Len(y_init), n_attr |-> Len(y_attr),
                          outcome |-> IF ok THEN "returned" ELSE "fatal"]
  /\ UNCHANGED <<ndebug, fa, pcall>>

Next ==
  \/ Construct
  \/ IntegrateStart2
  \/ IntegrateStart3
  \/ IntegrateStep
  \/ SetIntegrationMethod
  \/ AnalyticalSolution
  \/ ToJson
  \/ FromJson

Spec == Init /\ [][Next]_vars

-----------------------------------------------------------------------------
(* FunctionApproximatorRBFN.  The sources hold two implementations: one that   *)
(* keeps centers_, widths_ and weights_ itself (impl "members") and one that   *)
(* keeps them in a ModelParametersRBFN it owns (impl "model_parameters").      *)

\* largest number of basis functions, of input dimensions, of rows in a batch
MaxBasis == 2
MaxInputDim == 2
MaxRows == 2

\* the sum of a sequence of rationals, of a sequence of formal sums
RECURSIVE RSum(_)
RSum(terms) ==
  IF terms = <<>> THEN R(0)
  ELSE RAdd(RSum(SubSeq(terms, 1, Len(terms) - 1)), terms[Len(terms)])

RECURSIVE ESum(_)
ESum(terms) ==
  IF terms = <<>> THEN EConst(R(0))
  ELSE EAdd(ESum(SubSeq(terms, 1, Len(terms) - 1)), terms[Len(terms)])

\* a coefficient nothing has written yet
Indeterminate == {<<R(0), R(0)>>}
Uninitialized(rows, cols) ==
  Matrix(rows, cols, [i \in 1..rows, j \in 1..cols |-> Indeterminate])
Size(m) == m.rows * m.cols

\* Eigen's resize(rows, cols) allocates exactly when the number of coefficients changes
ResizeAllocates(m, rows, cols) == IF Size(m) # rows * cols THEN 1 ELSE 0

\* BasisFunction::Gaussian::activations / ModelParametersRBFN::kernelActivations:
\* activations[t][b] = exp(-0.5 * SUM_d ((inputs[t][d] - centers[b][d]) / widths[b][d])^2),
\* a T x n_basis matrix, for one row as for many
GaussianActivations(centers, widths, inputs) ==
  Matrix(inputs.rows, centers.rows, [t \in 1..inputs.rows, b \in 1..centers.rows |->
    EExp(RMul(Rat(-1, 2),
              RSum([d \in 1..centers.cols |->
                LET z == RDiv(RSub(inputs.at[<<t, d>>], centers.at[<<b, d>>]),
                              widths.at[<<b, d>>])
                IN  RMul(z, z)])))])

\* part_001:48-51, the asserts of the constructor
RBFNAsserts(centers, widths, weights) ==
  /\ centers.rows = widths.rows
  /\ centers.rows = weights.rows
  /\ centers.cols = widths.cols
  /\ weights.cols = 1

\* a scratch buffer of one coefficient, whatever the number of basis functions
OneSampleBuffer_SingleCoefficient(n_basis_functions) == Uninitialized(1, 1)

\* part_001:53 and FunctionApproximatorRBFN.cpp:55:
\* activations_one_prealloc_ = MatrixXd(1, n_basis_functions)
OneSampleBuffer(n_basis_functions) == Uninitialized(1, n_basis_functions)

\* part_001:41-54
RBFNCtor(centers, widths, weights) ==
  [impl |-> "members",
   n_basis_functions_ |-> centers.rows,
   centers_ |-> centers, widths_ |-> widths, weights_ |-> weights,
   activations_one_prealloc_ |-> OneSampleBuffer(centers.rows)]

\* FunctionApproximatorRBFN.cpp:41-57, on a ModelParametersRBFN holding the three
\* matrices; getNumberOfBasisFunctions() is the number of centers
RBFNCtorFromModelParameters(centers, widths, weights) ==
  [impl |-> "model_parameters",
   n_basis_functions_ |-> centers.rows,
   centers_ |-> centers, widths_ |-> widths, weights_ |-> weights,
   weights_prealloc_ |-> Uninitialized(centers.rows, 1),
   activations_one_prealloc_ |-> OneSampleBuffer(centers.rows),
   activations_prealloc_ |-> Uninitialized(1, centers.rows)]

\* part_001:69-70, 88-89 and FunctionApproximatorRBFN.cpp:75-76, 96-97:
\* column b of the activations times weights(b)
Weighted(activations, weights, n_basis_functions) ==
  Matrix(activations.rows, activations.cols,
         [t \in 1..activations.rows, b \in 1..activations.cols |->
    IF b <= n_basis_functions
    THEN EScale(weights.at[<<b, 1>>], activations.at[<<t, b>>])
    ELSE activations.at[<<t, b>>]])

\* activations.rowwise().sum(): a column with one sum per row
RowwiseSum(m) ==
  Matrix(m.rows, 1, [t \in 1..m.rows, c \in 1..1 |->
                      ESum([b \in 1..m.cols |-> m.at[<<t, b>>]])])

\* the weights the loop multiplies with: weights_ (part_001:70, 89), or the copy
\* that line 62 of FunctionApproximatorRBFN.cpp left in weights_prealloc_ (75-76, 96-97)
WeightsRead(f) ==
  IF f.impl = "model_parameters"
  THEN Matrix(f.weights_prealloc_.rows, 1,
              [b \in 1..f.weights_prealloc_.rows, c \in 1..1 |->
                 ECoef(f.weights_prealloc_.at[<<b, 1>>], R(0))])
  ELSE f.weights_

\* a single-sample branch that leaves the last basis function unweighted
PredictOneSample_LastUnweighted(f, inputs, out_rows, out_cols) ==
  LET weighted == Weighted(GaussianActivations(f.centers_, f.widths_, inputs),
                           WeightsRead(f), f.n_basis_functions_ - 1)
  IN  [fa |-> [f EXCEPT !.activations_one_prealloc_ = weighted],
       outputs |-> RowwiseSum(weighted),
       allocs |-> ResizeAllocates(f.activations_one_prealloc_, 1, f.n_basis_functions_)
                  + (IF out_rows * out_cols # 1 THEN 1 ELSE 0)]

\* part_001:62-75 and FunctionApproximatorRBFN.cpp:69-81, the branch for one row
PredictOneSample(f, inputs, out_rows, out_cols) ==
  LET weighted == Weighted(GaussianActivations(f.centers_, f.widths_, inputs),
                           WeightsRead(f), f.n_basis_functions_)
  IN  [fa |-> [f EXCEPT !.activations_one_prealloc_ = weighted],
       outputs |-> RowwiseSum(weighted),
       allocs |-> ResizeAllocates(f.activations_one_prealloc_, 1, f.n_basis_functions_)
                  + (IF out_rows * out_cols # 1 THEN 1 ELSE 0)]

\* a batch branch that takes a scratch of the right shape for already computed
PredictBatch_ReusesSizedScratch(f, inputs, out_rows, out_cols) ==
  LET T == inputs.rows
      weighted == Weighted(GaussianActivations(f.centers_, f.widths_, inputs),
                           WeightsRead(f), f.n_basis_functions_)
      out_allocs == IF out_rows * out_cols # T THEN 1 ELSE 0
  IN  IF f.impl = "members"
      THEN [fa |-> f,
            outputs |-> RowwiseSum(weighted),
            allocs |-> (IF T * f.n_basis_functions_ # 0 THEN 1 ELSE 0) + out_allocs]
      ELSE IF f.activations_prealloc_.rows = T
                /\ f.activations_prealloc_ # Uninitialized(T, f.n_basis_functions_)
      THEN [fa |-> f,
            outputs |-> RowwiseSum(f.activations_prealloc_),
            allocs |-> out_allocs]
      ELSE [fa |-> [f EXCEPT !.activations_prealloc_ = weighted],
            outputs |-> RowwiseSum(weighted),
            allocs |-> ResizeAllocates(f.activations_prealloc_, T, f.n_basis_functions_)
                       + out_allocs]

\* part_001:79-92 and FunctionApproximatorRBFN.cpp:85-100, the branch for a batch
PredictBatch(f, inputs, out_rows, out_cols) ==
  LET T == inputs.rows
      weighted == Weighted(GaussianActivations(f.centers_, f.widths_, inputs),
                           WeightsRead(f), f.n_basis_functions_)
      out_allocs == IF out_rows * out_cols # T THEN 1 ELSE 0
  IN  IF f.impl = "members"
      THEN \* a local MatrixXd activations(n_time_steps, n_basis_functions_)
           [fa |-> f,
            outputs |-> RowwiseSum(weighted),
            allocs |-> (IF T * f.n_basis_functions_ # 0 THEN 1 ELSE 0) + out_allocs]
      ELSE [fa |-> [f EXCEPT !.activations_prealloc_ = weighted],
            outputs |-> RowwiseSum(weighted),
            allocs |-> ResizeAllocates(f.activations_prealloc_, T, f.n_basis_functions_)
                       + out_allocs]

\* FunctionApproximatorRBFN.cpp:62: model_parameters_->weights(weights_prealloc_)
WithWeightsCopied(f) ==
  IF f.impl = "model_parameters"
  THEN [f EXCEPT !.weights_prealloc_ =
          Matrix(f.weights_.rows, 1, [b \in 1..f.weights_.rows, c \in 1..1 |->
                                       EConst(f.weights_.at[<<b, 1>>])])]
  ELSE f

\* predict(inputs, outputs): part_001:56-95 and FunctionApproximatorRBFN.cpp:60-103,
\* outputs being out_rows x out_cols on entry
predict(f, inputs, out_rows, out_cols) ==
  IF inputs.rows = 1
  THEN PredictOneSample(WithWeightsCopied(f), inputs, out_rows, out_cols)
  ELSE PredictBatch(WithWeightsCopied(f), inputs, out_rows, out_cols)

\* predict stays inside its matrices: the parameters have the shapes the constructor
\* asserts (a second weights column is never read) and inputs has their columns
PredictDefined(f, inputs) ==
  /\ f.centers_.rows = f.widths_.rows
  /\ f.centers_.rows = f.weights_.rows
  /\ f.centers_.cols = f.widths_.cols
  /\ inputs.cols = f.centers_.cols

(* Inputs of the approximator's actions *)

\* the centers, widths and weights of an approximator with n basis functions
CentersOf(n, dims) == Matrix(n, dims, [b \in 1..n, d \in 1..dims |-> R(b + d - 2)])
WidthsOf(n, dims, w) == Matrix(n, dims, [b \in 1..n, d \in 1..dims |-> w])
WeightsOf(w) == Matrix(Len(w), 1, [b \in 1..Len(w), c \in 1..1 |-> w[b]])
WidthValues == {R(2)}
\* weight vectors of n basis functions: 1 and -2 in turn, starting with either
WeightVectors(n) ==
  {[b \in 1..n |-> IF (b + first) % 2 = 0 THEN R(1) ELSE R(-2)] : first \in {0, 1}}

\* a matrix with one row or one column more or less
Reshaped(m, rows, cols) ==
  Matrix(rows, cols, [i \in 1..rows, j \in 1..cols |->
    m.at[<<IF i <= m.rows THEN i ELSE m.rows, IF j <= m.cols THEN j ELSE m.cols>>]])

\* constructor arguments: consistent ones, and ones that break each assert
Defects == {"none", "widths_rows", "weights_rows", "widths_cols", "weights_cols"}
WithDefect(defect, centers, widths, weights) ==
  CASE defect = "widths_rows" ->
         <<centers, Reshaped(widths, widths.rows + 1, widths.cols), weights>>
    [] defect = "weights_rows" ->
         <<centers, widths, Reshaped(weights, weights.rows - 1, 1)>>
    [] defect = "widths_cols" ->
         <<centers, Reshaped(widths, widths.rows, widths.cols - 1), weights>>
    [] defect = "weights_cols" ->
         <<centers, widths, Reshaped(weights, weights.rows, 2)>>
    [] OTHER -> <<centers, widths, weights>>

\* the rows a caller asks predictions for
\* (batches of 1..MaxRows rows that take two points in turn, starting with either)
InputPoint(dims, v) == [d \in 1..dims |-> R(v + d - 1)]
InputBatches(dims) ==
  {Matrix(T, dims, [t \in 1..T, d \in 1..dims |-> InputPoint(dims, (t + first) % 2)[d]]) :
     T \in 1..MaxRows, first \in {0, 1}}

\* record of a predict call
PredictCall(inputs, out_rows, out_cols, outcome, outputs, allocs) ==
  [op |-> "predict", inputs |-> inputs, out_rows |-> out_rows, out_cols |-> out_cols,
   outcome |-> outcome, outputs |-> outputs, allocs |-> allocs]

\* new FunctionApproximatorRBFN(centers, widths, weights): part_001:41-54
ConstructRBFN ==
  /\ pc = "running" /\ fa = NoFa
  /\ \E n \in 1..MaxBasis, dims \in 1..MaxInputDim, w \in WidthValues,
        defect \in Defects :
       \E weights \in WeightVectors(n) :
          LET args == WithDefect(defect, CentersOf(n, dims), WidthsOf(n, dims, w),
                                 WeightsOf(weights))
              ok == AssertPasses(RBFNAsserts(args[1], args[2], args[3]))
          IN  /\ fa' = IF ok THEN RBFNCtor(args[1], args[2], args[3]) ELSE NoFa
              /\ pc' = IF ok THEN "running" ELSE "aborted"
              /\ pcall' = [op |-> "construct", defect |-> defect,
                           outcome |-> IF ok THEN "returned" ELSE "fatal"]
  /\ UNCHANGED <<ndebug, sys, call>>

\* new FunctionApproximatorRBFN(model_parameters): FunctionApproximatorRBFN.cpp:41-45,
\* on a ModelParametersRBFN with consistent matrices
ConstructRBFNFromModelParameters ==
  /\ pc = "running" /\ fa = NoFa
  /\ \E n \in 1..MaxBasis, dims \in 1..MaxInputDim, w \in WidthValues :
       \E weights \in WeightVectors(n) :
       /\ fa' = RBFNCtorFromModelParameters(CentersOf(n, dims), WidthsOf(n, dims, w),
                                            WeightsOf(weights))
       /\ pcall' = [op |-> "construct", defect |-> "none", outcome |-> "returned"]
  /\ UNCHANGED <<ndebug, pc, sys, call>>

\* predict(inputs, outputs): part_001:56-95, FunctionApproximatorRBFN.cpp:60-103
Predict ==
  /\ pc = "running" /\ fa # NoFa
  /\ \E inputs \in InputBatches(fa.centers_.cols), out \in {<<0, 0>>, <<1, 1>>} :
       IF PredictDefined(fa, inputs)
       THEN LET r == predict(fa, inputs, out[1], out[2])
            IN  /\ fa' = r.fa
                /\ pc' = "running"
                /\ pcall' = PredictCall(inputs, out[1], out[2], "returned",
                                        r.outputs, r.allocs)
       ELSE \* reads outside a matrix: undefined behaviour
            /\ fa' = fa
            /\ \/ /\ pc' = "aborted"
                  /\ pcall' = PredictCall(inputs, out[1], out[2], "crash",
                                          Uninitialized(out[1], out[2]), 0)
               \/ /\ pc' = "running"
                  /\ pcall' = PredictCall(inputs, out[1], out[2], "undefined",
                                          Uninitialized(inputs.rows, 1), 0)
  /\ UNCHANGED <<ndebug, sys, call>>

(* FunctionApproximatorRBFN: to_json and from_jsonpickle *)

\* part_001:106-112
to_json(obj) ==
  [centers_ |-> EigenToJson(obj.centers_),
   widths_ |-> EigenToJson(obj.widths_),
   weights_ |-> EigenToJson(obj.weights_)]
  @@ ("py/object" :> "dynamicalsystems.ModelParametersRBFN.ModelParametersRBFN")

\* the result of a from_jsonpickle call
Unpickled(outcome, o) == [outcome |-> outcome, obj |-> o]

\* the keys of the parameters sub-document, read with at(): part_001:100-102
ModelParamsKeysRead == {"centers", "widths", "weights"}

\* json::at(key) of a missing key throws json::out_of_range: part_001:99-102
FromJsonpickleThrows(json) ==
  \/ ~JsonHas(json, "_model_params")
  \/ \E k \in ModelParamsKeysRead :
       \/ ~JsonHas(json["_model_params"], k)
       \/ ~JsonHas(json["_model_params"][k], "values")

\* part_001:97-104
from_jsonpickle(json) ==
  IF FromJsonpickleThrows(json)
  THEN Unpickled("exception", NoFa)
  ELSE LET j == json["_model_params"]
           centers == j.centers.values
           widths == j.widths.values
           weights == j.weights.values
       IN  IF ~AssertPasses(RBFNAsserts(centers, widths, weights))
           THEN Unpickled("fatal", NoFa)
           ELSE Unpickled("returned", RBFNCtor(centers, widths, weights))

\* ModelParametersRBFN::from_jsonpickle is not in the sources: it answers a
\* complete sub-document with the parameters and any other with an error
ModelParametersFromJsonpickle(j) ==
  IF \E k \in ModelParamsKeysRead : ~JsonHas(j, k) \/ ~JsonHas(j[k], "values")
  THEN Unpickled("exception", NoFa)
  ELSE Unpickled("returned",
                 RBFNCtorFromModelParameters(j.centers.values, j.widths.values,
                                             j.weights.values))

\* FunctionApproximatorRBFN.cpp:105-112: without "_model_params" model stays NULL
\* and the constructor (41-45) calls getNumberOfBasisFunctions() through it
FromJsonpickleDereferencesNull(json) == ~JsonHas(json, "_model_params")

\* the document jsonpickle writes for the parameters that to_json wrote into j
Pickled(j) ==
  [_model_params |-> [centers |-> j.centers_, widths |-> j.widths_,
                      weights |-> j.weights_]]
  @@ ("py/object" :> j["py/object"])

\* the documents handed to from_jsonpickle after to_json wrote j: j itself, the
\* nested document of the same parameters, and that one with one key missing
PickledDocumentsFrom(j) ==
  {j, Pickled(j), JsonWithout(Pickled(j), "_model_params")}
  \cup {JsonSet(Pickled(j), "_model_params", JsonWithout(Pickled(j)["_model_params"], k)) :
          k \in ModelParamsKeysRead}

\* to_json(j, obj): part_001:106-112
ToJsonRBFN ==
  /\ pc = "running" /\ fa # NoFa /\ fa.impl = "members"
  /\ pcall' = [op |-> "to_json", j |-> to_json(fa)]
  /\ UNCHANGED <<ndebug, pc, sys, call, fa>>

\* FunctionApproximatorRBFN::from_jsonpickle(json): part_001:97-104 (impl "members")
\* and FunctionApproximatorRBFN.cpp:105-112 (impl "model_parameters")
FromJsonpickle ==
  /\ pc = "running" /\ pcall.op = "to_json"
  /\ \E json \in PickledDocumentsFrom(pcall.j), impl \in {"members", "model_parameters"} :
       LET Done(outcome, o) ==
             /\ pcall' = [op |-> "from_jsonpickle", impl |-> impl, json |-> json,
                          outcome |-> outcome, obj |-> o]
             /\ pc' = IF outcome \in {"fatal", "crash"} THEN "aborted" ELSE "running"
       IN  IF impl = "members"
           THEN LET r == from_jsonpickle(json) IN Done(r.outcome, r.obj)
           ELSE IF FromJsonpickleDereferencesNull(json)
           THEN \* undefined behaviour: a crash, or an object of arbitrary size
                \/ Done("crash", NoFa)
                \/ Done("undefined", [impl |-> "model_parameters",
                                      model_parameters_ |-> "NULL"])
           ELSE LET r == ModelParametersFromJsonpickle(json["_model_params"])
                IN  Done(r.outcome, r.obj)
  /\ UNCHANGED <<ndebug, sys, call, fa>>

NextRBFN ==
  \/ ConstructRBFN
  \/ ConstructRBFNFromModelParameters
  \/ Predict
  \/ ToJsonRBFN
  \/ FromJsonpickle

SpecRBFN == Init /\ [][NextRBFN]_vars

-----------------------------------------------------------------------------
(* Properties of the DynamicalSystem *)

\* the object was built with the arguments the constructor asserts
ValidlyConstructed(s) ==
  /\ s.ctor.order \in {1, 2}
  /\ s.ctor.n_init = s.ctor.n_attr

\* a system of at least one dimension built from valid arguments and a positive tau
OrdinarySystem(s) ==
  /\ IsSystem(s) /\ ValidlyConstructed(s)
  /\ RPos(s.tau_) /\ s.dim_orig_ >= 1

\* C1: for every system constructed with order in {1,2} and equal-sized
\* initial_state and attractor_state, after any sequence of integrateStart (both
\* overloads) and integrateStep calls: dim == order * dim_orig,
\* dim_orig == initial_state.size() and initial_state.size() == attractor_state.size()
C1_DimInvariant ==
  (IsSystem(sys) /\ ValidlyConstructed(sys)) =>
    /\ sys.dim_ = sys.ctor.order * sys.dim_orig_
    /\ sys.dim_orig_ = Len(sys.initial_state_)
    /\ Len(sys.initial_state_) = Len(sys.attractor_state_)

\* an order-2 system of two dimensions whose initial state integrateStart(x_init, ..)
\* has just replaced
C1_Witness ==
  /\ IsSystem(sys) /\ ValidlyConstructed(sys)
  /\ sys.ctor.order = 2 /\ sys.dim_orig_ = 2
  /\ call.op = "integrateStart" /\ call.outcome = "returned"
  /\ call.x_init # NoXInit /\ call.x_init = sys.initial_state_

\* the Runge-Kutta step as the specification writes it
RungeKuttaReference(s, dt, x) ==
  LET half == RDiv(dt, R(2))
      k1 == differentialEquation(s, x)
      k2 == differentialEquation(s, VAdd(x, VScale(half, k1)))
      k3 == differentialEquation(s, VAdd(x, VScale(half, k2)))
      k4 == differentialEquation(s, VAdd(x, VScale(dt, k3)))
      sum == VAdd(VAdd(VAdd(k1, VScale(R(2), k2)), VScale(R(2), k3)), k4)
  IN  VAdd(x, VScale(RDiv(dt, R(6)), sum))

\* C6: integrateStep dispatches on the configured integration method, which is
\* RUNGE_KUTTA for every freshly constructed system; with RUNGE_KUTTA it returns
\* x_updated = x + dt*(k1 + 2*k2 + 2*k3 + k4)/6 and xd_updated = f(x_updated), with
\* EULER it returns x_updated = x + dt*f(x)
C6_StepFormula ==
  /\ (call.op = "construct" /\ call.outcome = "returned") =>
       sys.integration_method_ = "RUNGE_KUTTA"
  /\ (call.op = "integrateStep" /\ call.outcome = "returned") =>
       IF sys.integration_method_ = "RUNGE_KUTTA"
       THEN /\ call.x_updated = RungeKuttaReference(sys, call.dt, call.x)
            /\ call.xd_updated = differentialEquation(sys, call.x_updated)
       ELSE call.x_updated =
              VAdd(call.x, VScale(call.dt, differentialEquation(sys, call.x)))

\* a Runge-Kutta step of a two-dimensional order-2 system that moved the state
C6_Witness ==
  /\ call.op = "integrateStep" /\ call.outcome = "returned"
  /\ sys.integration_method_ = "RUNGE_KUTTA"
  /\ RPos(call.dt) /\ sys.dim_ = 4
  /\ call.x_updated # call.x

\* C7: integrateStep called with dt <= 0 or with x.size() != dim always ends in a
\* fatal error, raised before any derivative is evaluated and before x_updated or
\* xd_updated is written
\* (stated on systems built from valid arguments, so that a violation rests on
\* the call alone)
C7_StepRejectsBadArguments ==
  (/\ call.op = "integrateStep" /\ OrdinarySystem(sys)
   /\ ~RPos(call.dt) \/ Len(call.x) # sys.dim_) =>
    /\ call.outcome = "fatal"
    /\ call.evals = 0
    /\ call.x_updated = VConst(call.nout, Junk)
    /\ call.xd_updated = VConst(call.nout, Junk)

\* C8: construction rejects every structurally invalid argument set: if order is
\* not 1 or 2, or the two state vectors differ in size, or tau <= 0, construction
\* ends in a fatal error and no system object results
C8_ConstructRejectsInvalid ==
  (call.op = "construct" /\
     (call.order \notin {1, 2} \/ call.n_init # call.n_attr \/ ~RPos(call.tau))) =>
    (call.outcome = "fatal" /\ sys = NoSys)

\* C9: integrateStart writes into x the initial state in [0, dim_orig) and zero in
\* [dim_orig, dim), whatever x held before, and into xd differentialEquation(x) of
\* that x; the overload taking x_init does so with initial_state replaced by x_init.
\* Stated for the calls inside the interface: x and xd of dim coefficients on a
\* validly constructed system, x_init of dim_orig coefficients
C9_StartWritesPaddedState ==
  (/\ call.op = "integrateStart"
   /\ ValidlyConstructed(sys)
   /\ call.nx = sys.dim_ /\ call.nxd = sys.dim_
   /\ call.x_init # NoXInit => Len(call.x_init) = sys.dim_orig_) =>
    LET init == IF call.x_init = NoXInit THEN sys.initial_state_ ELSE call.x_init
    IN  /\ call.outcome = "returned"
        /\ sys.initial_state_ = init
        /\ Len(call.x) = sys.dim_
        /\ \A i \in 1..sys.dim_ :
             call.x[i] = IF i <= sys.dim_orig_ THEN init[i] ELSE R(0)
        /\ call.xd = differentialEquation(sys, call.x)

\* integrateStart(x_init, x, xd) on an order-2 system of two dimensions, x_init
\* not zero, the caller's x holding other values before
C9_Witness ==
  /\ call.op = "integrateStart" /\ call.outcome = "returned"
  /\ call.x_init # NoXInit /\ call.x_init # VZero(2)
  /\ sys.dim_ = 4 /\ sys.dim_orig_ = 2
  /\ VConst(call.nx, Junk) # call.x

-----------------------------------------------------------------------------
(* Properties of the (de)serialization *)

VariantNames == {"ExponentialSystem", "SigmoidSystem", "SpringDamperSystem", "TimeSystem"}

\* C2: polymorphic deserialization of a document whose discriminator string
\* contains none of the four variant names ends with a null result plus a
\* diagnostic: no crash, no abort, no default or partially constructed object
C2_UnknownTagYieldsNull ==
  (/\ call.op = "from_json"
   /\ JsonHas(call.j, "py/object")
   /\ \A name \in VariantNames : ~Contains(call.j["py/object"], name)) =>
    /\ call.outcome = "returned"
    /\ pc = "running"
    /\ call.obj = Null
    /\ call.diagnostic

\* a document whose discriminator misses a variant name by letter case only
C2_Witness ==
  /\ call.op = "from_json"
  /\ JsonHas(call.j, "py/object")
  /\ call.j["py/object"] = "exponentialsystem"
  /\ call.obj = Null

\* C3: serializing a system d with to_json_helper/to_json_base and deserializing
\* the document through the polymorphic from_json yields a system of the same
\* variant whose dim, dim_orig, tau, initial_state, attractor_state, integration
\* method and alpha equal those of d
\* (stated on ExponentialSystems built from valid arguments)
C3_RoundTrip ==
  (/\ call.op = "from_json"
   /\ OrdinarySystem(sys) /\ sys.variant = "ExponentialSystem"
   /\ call.j = to_json_helper(sys)) =>
    /\ call.outcome = "returned"
    /\ call.obj.variant = sys.variant
    /\ call.obj.dim_ = sys.dim_
    /\ call.obj.dim_orig_ = sys.dim_orig_
    /\ call.obj.tau_ = sys.tau_
    /\ call.obj.initial_state_ = sys.initial_state_
    /\ call.obj.attractor_state_ = sys.attractor_state_
    /\ call.obj.alpha_ = sys.alpha_
    /\ call.obj.integration_method_ = sys.integration_method_

\* the keys of the persisted Dynamical System document of an ExponentialSystem
DynamicalSystemContractKeys ==
  {"py/object", "dim_", "dim_orig_", "tau_", "initial_state_", "attractor_state_",
   "integration_method_", "alpha_"}

\* C12: a missing field is never silently defaulted: from_json of a document that
\* lacks a key of the persisted-document contract ends in an explicit error and
\* produces no object
C12_MissingFieldIsAnError ==
  (/\ call.op = "from_json"
   /\ \E k \in DynamicalSystemContractKeys : ~JsonHas(call.j, k)) =>
    /\ call.outcome = "exception"
    /\ call.obj = Unassigned

-----------------------------------------------------------------------------
(* Properties of analyticalSolution *)

\* x_d(t) = attractor_d + (initial_d - attractor_d) * exp(-alpha * t / tau)
SolutionValue(s, d, t) ==
  EAdd(EConst(s.attractor_state_[d]),
       EScale(RSub(s.initial_state_[d], s.attractor_state_[d]),
              EExp(RNeg(RDiv(RMul(s.alpha_, t), s.tau_)))))

\* m is T x dim and holds the value of dimension d at time ts[t] at (t, d)
TimeMajor(m, s, ts) ==
  /\ m.rows = Len(ts) /\ m.cols = s.dim_
  /\ \A t \in 1..Len(ts), d \in 1..s.dim_ : m.at[<<t, d>>] = SolutionValue(s, d, ts[t])

\* m is dim x T and holds the value of dimension d at time ts[t] at (d, t)
DimMajor(m, s, ts) ==
  /\ m.rows = s.dim_ /\ m.cols = Len(ts)
  /\ \A t \in 1..Len(ts), d \in 1..s.dim_ : m.at[<<d, t>>] = SolutionValue(s, d, ts[t])

\* C10: analyticalSolution honours both output orientations for every T >= 1 and
\* every dim, including T == dim: a dim x T buffer on entry gives dim-major xs,
\* every other entry shape gives time-major xs, and a caller who wants time-major
\* output always gets time-major output
\* (stated on systems built from valid arguments)
C10_BothOrientations ==
  (/\ call.op = "analyticalSolution" /\ call.outcome = "returned"
   /\ OrdinarySystem(sys) /\ Len(call.ts) >= 1) =>
    /\ (call.xs_rows = sys.dim_ /\ call.xs_cols = Len(call.ts)) =>
         DimMajor(call.xs, sys, call.ts)
    /\ ~(call.xs_rows = sys.dim_ /\ call.xs_cols = Len(call.ts)) =>
         TimeMajor(call.xs, sys, call.ts)
    /\ call.want = "time_major" => TimeMajor(call.xs, sys, call.ts)

-----------------------------------------------------------------------------
(* Properties of the integration calls *)

\* C15: with EULER the xd_updated of integrateStep is the rate of change at the
\* input state x, xd_updated = differentialEquation(x), and x_updated is
\* x + dt * xd_updated exactly; with RUNGE_KUTTA xd_updated is
\* differentialEquation(x_updated)
C15_EulerDerivativeAtInput ==
  (call.op = "integrateStep" /\ call.outcome = "returned") =>
    IF sys.integration_method_ = "EULER"
    THEN /\ call.xd_updated = differentialEquation(sys, call.x)
         /\ call.x_updated = VAdd(call.x, VScale(call.dt, call.xd_updated))
    ELSE call.xd_updated = differentialEquation(sys, call.x_updated)

\* an Euler step that moved the state, so that the rate of change at the input
\* state differs from the one at the new state
C15_Witness ==
  /\ call.op = "integrateStep" /\ call.outcome = "returned"
  /\ sys.integration_method_ = "EULER" /\ RPos(call.dt)
  /\ call.x_updated # call.x
  /\ call.xd_updated # differentialEquation(sys, call.x_updated)

\* the object without its scratch vector (ExponentialSystem keeps one)
WithoutScratch(s) ==
  IF s.variant = "ExponentialSystem"
  THEN [s EXCEPT !.attractor_state_prealloc_ = <<>>]
  ELSE s

\* the step is a call of integrateStep, of integrateStart(x, xd), of
\* integrateStart(x_init, x, xd), that returned or failed an assert (after undefined
\* behaviour nothing can be said of the object)
StepCalled ==
  call'.op = "integrateStep" /\ call'.outcome \in {"returned", "fatal"}
Start2Called ==
  /\ call'.op = "integrateStart" /\ call'.outcome \in {"returned", "fatal"}
  /\ call'.x_init = NoXInit
Start3Called ==
  /\ call'.op = "integrateStart" /\ call'.outcome \in {"returned", "fatal"}
  /\ call'.x_init # NoXInit

-----------------------------------------------------------------------------
(* Properties of the FunctionApproximatorRBFN *)

\* row t of a matrix, as a matrix of one row
RowOf(m, t) == Matrix(1, m.cols, [i \in 1..1, j \in 1..m.cols |-> m.at[<<t, j>>]])

\* C4: batching never changes the per-row output of predict: for every input batch
\* of T >= 2 rows, row t of predict(batch) equals the output of predict applied to
\* the one-row input made of row t alone
C4_BatchEqualsSingle ==
  (/\ pcall.op = "predict" /\ pcall.outcome = "returned"
   /\ pcall.inputs.rows >= 2) =>
    /\ pcall.outputs.rows = pcall.inputs.rows /\ pcall.outputs.cols = 1
    /\ \A t \in 1..pcall.inputs.rows :
         LET single == predict(fa, RowOf(pcall.inputs, t), 1, 1).outputs
         IN  /\ single.rows = 1 /\ single.cols = 1
             /\ pcall.outputs.at[<<t, 1>>] = single.at[<<1, 1>>]

\* a batch of two different rows on two basis functions whose outputs differ
C4_Witness ==
  /\ pcall.op = "predict" /\ pcall.outcome = "returned"
  /\ pcall.inputs.rows = 2 /\ fa.n_basis_functions_ = 2
  /\ pcall.outputs.at[<<1, 1>>] # pcall.outputs.at[<<2, 1>>]

\* C5: after construction and after any interleaving of single-row and multi-row
\* predict calls, activations_one_prealloc_ has shape 1 x n_basis_functions, and a
\* single-row predict called with an already 1x1 outputs matrix allocates nothing
C5_OneSampleAllocatesNothing ==
  /\ fa # NoFa =>
       /\ fa.activations_one_prealloc_.rows = 1
       /\ fa.activations_one_prealloc_.cols = fa.n_basis_functions_
  /\ (/\ pcall.op = "predict" /\ pcall.outcome = "returned"
      /\ pcall.inputs.rows = 1
      /\ pcall.out_rows = 1 /\ pcall.out_cols = 1) =>
       pcall.allocs = 0

\* a single-row predict into a 1x1 outputs matrix, after a batch has been through
\* the approximator that keeps a batch scratch buffer
C5_Witness ==
  /\ pcall.op = "predict" /\ pcall.outcome = "returned"
  /\ pcall.inputs.rows = 1 /\ pcall.out_rows = 1 /\ pcall.out_cols = 1
  /\ fa.impl = "model_parameters" /\ fa.n_basis_functions_ = 2
  /\ fa.activations_prealloc_.rows = 2

\* the approximator as its constructor leaves it, nothing predicted yet
Fresh(f) ==
  IF f.impl = "members"
  THEN RBFNCtor(f.centers_, f.widths_, f.weights_)
  ELSE RBFNCtorFromModelParameters(f.centers_, f.widths_, f.weights_)

\* C13: predict is stateless per call: whatever predict calls came before, a
\* predict(inputs) returns the outputs that the freshly constructed approximator
\* returns for these inputs, and no predict call changes centers, widths or weights
C13_PredictStateless ==
  [][(pcall'.op = "predict" /\ pcall'.outcome = "returned") =>
       /\ fa'.centers_ = fa.centers_
       /\ fa'.widths_ = fa.widths_
       /\ fa'.weights_ = fa.weights_
       /\ pcall'.outputs
            = predict(Fresh(fa), pcall'.inputs, pcall'.out_rows, pcall'.out_cols).outputs]_vars

\* a batch predict on an approximator whose scratch buffers earlier calls have
\* filled: a one-row call, and a batch of other rows
C13_Witness ==
  /\ pcall.op = "predict" /\ pcall.outcome = "returned"
  /\ pcall.inputs.rows = 2 /\ fa.n_basis_functions_ = 2
  /\ fa.impl = "model_parameters"
  /\ fa.activations_one_prealloc_ # Uninitialized(1, 2)
  /\ fa.activations_prealloc_.rows = 2

\* C11: to_json and from_jsonpickle are inverse: the document to_json emits for an
\* approximator is one that from_jsonpickle accepts, and from_jsonpickle of it
\* yields an approximator with the same centers, widths and weights
\* (stated on approximators built from arguments the constructor asserts)
C11_ToJsonInverts ==
  (/\ pcall.op = "from_jsonpickle" /\ pcall.impl = "members"
   /\ RBFNAsserts(fa.centers_, fa.widths_, fa.weights_)
   /\ pcall.json = to_json(fa)) =>
    /\ pcall.outcome = "returned"
    /\ pcall.obj.centers_ = fa.centers_
    /\ pcall.obj.widths_ = fa.widths_
    /\ pcall.obj.weights_ = fa.weights_

=============================================================================
